---- MODULE Spec2Model ----
(***************************************************************************)
(* OpenCaption (src/src/main.go): chunked transcription, timestamp         *)
(* re-basing, overlap de-duplication, word-safe wrapping, short-cue merge. *)
(*                                                                         *)
(* Representation.                                                         *)
(*  - A Go string is a sequence of one-character strings; len(s) is Len(s).*)
(*  - A float32 time v is the integer v * 2^26.  Every time of the model   *)
(*    is 0 or lies in [0.125 s, 32 s), so it is a whole number of 2^-26 s; *)
(*    float32 operations round to 24 significant bits, ties to even.       *)
(*    Input times are the float32 values nearest to whole fifths of a      *)
(*    second (ticks): tick 1 is float32(0.2), tick 3 is float32(0.6).      *)
(*  - A []float32 is its slice header [off, len] into the decoded buffer;  *)
(*    the sample values are read by the external engine only.              *)
(***************************************************************************)
EXTENDS Integers, Sequences, FiniteSets, TLC

VARIABLES
    arg,        \* inputs: a function's arguments, or main's flags and decoded PCM
    ret,        \* result of the called function (single-function specifications)
    pc,         \* position: "call" | "done", or main's position
    chunks,     \* main: chunks
    chunkIdx,   \* main: i, the index of the chunk loop
    offset,     \* main: offset (float32)
    segments,   \* main: segments
    cues,       \* main: cues
    engineLog,  \* history: one entry per call of transcribe in the chunk loop
    out,        \* the output: [path, created, text]
    failure     \* what fail() reported before os.Exit(1); <<>> while none

pureVars == <<arg, ret, pc>>
mainVars == <<chunks, chunkIdx, offset, segments, cues, engineLog, out, failure>>
vars == <<arg, ret, pc, chunks, chunkIdx, offset, segments, cues, engineLog, out, failure>>

\* main is not running (single-function specifications)
MainIdle ==
    /\ chunks = <<>>
    /\ chunkIdx = 0
    /\ offset = 0
    /\ segments = <<>>
    /\ cues = <<>>
    /\ engineLog = <<>>
    /\ out = [path |-> "", created |-> FALSE, text |-> <<>>]
    /\ failure = <<>>

\* ----------------------------------------------------------------- bounds
MaxTextLen == 8
MaxChars == 3
MaxLines == 3

Chars == {"a", "b", " "}

SetMin(S) == CHOOSE x \in S : \A y \in S : x <= y
SetMax(S) == CHOOSE x \in S : \A y \in S : x >= y

\* ---------------------------------------------------------------- strings
IsSpace(c) == c = " "

\* strings.TrimSpace
TrimSpace(s) ==
    LET keep == {i \in 1..Len(s) : ~IsSpace(s[i])}
    IN  IF keep = {} THEN <<>> ELSE SubSeq(s, SetMin(keep), SetMax(keep))

\* strings.Fields: the maximal runs of non-space characters, in order
RECURSIVE Fields(_)
Fields(s) ==
    IF s = <<>> THEN <<>>
    ELSE IF IsSpace(Head(s)) THEN Fields(Tail(s))
    ELSE LET sp == {i \in 1..Len(s) : IsSpace(s[i])}
             n  == IF sp = {} THEN Len(s) + 1 ELSE SetMin(sp)
         IN  <<SubSeq(s, 1, n - 1)>> \o Fields(SubSeq(s, n, Len(s)))

\* strings.Join(elems, " ")
RECURSIVE Join(_)
Join(elems) ==
    IF elems = <<>> THEN <<>>
    ELSE IF Len(elems) = 1 THEN elems[1]
    ELSE elems[1] \o <<" ">> \o Join(Tail(elems))

\* strings.LastIndex(s, " "): 0-based index of the last space, -1 if none
LastIndexSpace(s) ==
    LET sp == {i \in 1..Len(s) : s[i] = " "}
    IN  IF sp = {} THEN -1 ELSE SetMax(sp) - 1

\* s[:n]
Prefix(s, n) == SubSeq(s, 1, n)

fieldsPreservePunct(s) == Fields(s)

\* ------------------------------------------------------------------- wrap
RECURSIVE wordsJoinRemainingLoop(_, _, _, _, _)
wordsJoinRemainingLoop(all, from, k, found, rest) ==
    IF k > Len(all) THEN rest
    ELSE IF ~found /\ all[k] = from
         THEN wordsJoinRemainingLoop(all, from, k + 1, TRUE, rest)
    ELSE IF found
         THEN wordsJoinRemainingLoop(all, from, k + 1, found, Append(rest, all[k]))
    ELSE wordsJoinRemainingLoop(all, from, k + 1, found, rest)

wordsJoinRemaining(all, from) == wordsJoinRemainingLoop(all, from, 1, FALSE, <<>>)

\* faulty variant of softTruncate: the remainder is appended uncut
softTruncate_NoCut(s, max) == s

softTruncate(s, max) ==
    IF Len(s) <= max THEN s
    ELSE LET idx == LastIndexSpace(Prefix(s, max))
         IN  IF idx > 0 THEN Prefix(s, idx) ELSE Prefix(s, max)

\* lines[:maxLines] when len(lines) > maxLines
CapLines(lines, maxLines) ==
    IF Len(lines) > maxLines THEN SubSeq(lines, 1, maxLines) ELSE lines

\* The branch of wrapWords taken when the (maxLines-1)-th line is completed:
\* lines already holds the completed lines, w is the word that did not fit.
\* forced: the branch was taken; joined: the final line before truncation
\* (empty when the code appends no final line).
wrapRemainder(words, lines, w, maxChars, maxLines) ==
    LET curr   == w
        rest0  == Join(wordsJoinRemaining(words, w))
        joined == IF rest0 # <<>>
                  THEN (IF Len(curr) > 0 THEN curr \o <<" ">> \o rest0 ELSE curr)
                  ELSE <<>>
        lines2 == IF rest0 # <<>>
                  THEN Append(lines, softTruncate(joined, maxChars))
                  ELSE lines
    IN  [lines |-> CapLines(lines2, maxLines), forced |-> TRUE, joined |-> joined,
         unfit |-> w]

RECURSIVE wrapLoop(_, _, _, _, _, _)
wrapLoop(words, k, lines, curr, maxChars, maxLines) ==
    IF k > Len(words)
    THEN [lines  |-> CapLines(IF curr # <<>> THEN Append(lines, curr) ELSE lines,
                              maxLines),
          forced |-> FALSE, joined |-> <<>>, unfit |-> <<>>]
    ELSE LET w == words[k]
         IN  IF curr = <<>>
             THEN wrapLoop(words, k + 1, lines, w, maxChars, maxLines)
             ELSE IF Len(curr) + 1 + Len(w) <= maxChars
             THEN wrapLoop(words, k + 1, lines, curr \o <<" ">> \o w, maxChars, maxLines)
             ELSE IF Len(lines) + 1 = maxLines - 1
             THEN wrapRemainder(words, Append(lines, curr), w, maxChars, maxLines)
             ELSE wrapLoop(words, k + 1, Append(lines, curr), w, maxChars, maxLines)

\* wrapWords with the intermediate values of its forced-final-line branch
wrapTrace(s, maxChars, maxLines) ==
    wrapLoop(fieldsPreservePunct(s), 1, <<>>, <<>>, maxChars, maxLines)

wrapWords(s, maxChars, maxLines) == wrapTrace(s, maxChars, maxLines).lines

\* ------------------------------------------------- specification: wrapWords
Texts == UNION {[1..n -> Chars] : n \in 0..MaxTextLen}

InitWrap ==
    /\ arg \in [s : Texts, maxChars : 1..MaxChars, maxLines : 1..MaxLines]
    /\ ret = <<>>
    /\ pc = "call"
    /\ MainIdle

CallWrapWords ==
    /\ pc = "call"
    /\ ret' = wrapTrace(arg.s, arg.maxChars, arg.maxLines)
    /\ pc' = "done"
    /\ UNCHANGED <<arg, mainVars>>

NextWrap == CallWrapWords

SpecWrap == InitWrap /\ [][NextWrap]_vars

\* ---------------------------------------------------- claims about wrapWords
WrapDone == pc = "done" /\ DOMAIN arg = {"s", "maxChars", "maxLines"}

HasSpace(s) == \E k \in 1..Len(s) : IsSpace(s[k])

\* the words of a sequence of lines, in reading order
RECURSIVE LinesWords(_)
LinesWords(lines) ==
    IF lines = <<>> THEN <<>> ELSE Fields(Head(lines)) \o LinesWords(Tail(lines))

IsPrefixOf(p, s) == Len(p) <= Len(s) /\ SubSeq(s, 1, Len(p)) = p

\* line is a run words[lo..hi] of whole words joined by single spaces
IsWordRun(line, words) ==
    \E lo \in 1..Len(words) : \E hi \in lo..Len(words) :
        line = Join(SubSeq(words, lo, hi))

\* the longest prefix of whole words of s whose length is <= max
LongestWordPrefix(s, max) ==
    LET ws   == Fields(s)
        fits == {n \in 0..Len(ws) : Len(Join(SubSeq(ws, 1, n))) <= max}
    IN  Join(SubSeq(ws, 1, SetMax(fits)))

\* C4: wrapWords returns at most maxLines lines, and a line longer than maxChars
\* is one single word of the input that is itself longer than maxChars.
C4_LineBudget ==
    WrapDone =>
        /\ Len(ret.lines) <= arg.maxLines
        /\ \A n \in 1..Len(ret.lines) :
              \/ Len(ret.lines[n]) <= arg.maxChars
              \/ /\ ~HasSpace(ret.lines[n])
                 /\ \E k \in 1..Len(Fields(arg.s)) : Fields(arg.s)[k] = ret.lines[n]

\* C4 witness: maxLines lines are returned, one of them a single over-long word,
\* and the final line was cut by softTruncate.
C4_Witness ==
    /\ WrapDone
    /\ Len(ret.lines) = arg.maxLines
    /\ \E n \in 1..Len(ret.lines) : Len(ret.lines[n]) > arg.maxChars
    /\ ret.forced
    /\ Len(ret.joined) > arg.maxChars
    /\ HasSpace(ret.joined)

\* C5: every returned line is a single-space-joined run of whole words of the
\* input; no line is a fragment of a word.
C5_WordSafe ==
    WrapDone => \A n \in 1..Len(ret.lines) : IsWordRun(ret.lines[n], Fields(arg.s))

\* C9: with maxLines >= 2, when the (maxLines-1)-th line is completed before all
\* words are consumed, the final line before truncation is the single-space join
\* of exactly the words not placed on an earlier line, starting with the word
\* that did not fit; the words of the returned lines are a prefix of the input
\* words; and all input words are returned when that final line fits maxChars.
C9_FinalLineIsRemainder ==
    (WrapDone /\ arg.maxLines >= 2 /\ ret.forced) =>
        LET words     == Fields(arg.s)
            earlier   == SubSeq(ret.lines, 1, arg.maxLines - 1)
            placed    == Len(LinesWords(earlier))
            remaining == SubSeq(words, placed + 1, Len(words))
        IN  /\ remaining # <<>>
            /\ Head(remaining) = ret.unfit
            /\ ret.joined = Join(remaining)
            /\ IsPrefixOf(LinesWords(ret.lines), words)
            /\ (Len(Join(remaining)) <= arg.maxChars => LinesWords(ret.lines) = words)

\* C10: when the joined final line (the words not yet placed on an earlier line)
\* is longer than maxChars and its first word is at most maxChars long, the returned final line is the longest prefix of whole
\* words of the joined line whose length is <= maxChars.
C10_CutAtLastBoundary ==
    (/\ WrapDone
     /\ ret.forced
     /\ ret.joined = Join(SubSeq(Fields(arg.s),
                                 Len(LinesWords(SubSeq(ret.lines, 1, arg.maxLines - 1))) + 1,
                                 Len(Fields(arg.s))))
     /\ Len(ret.joined) > arg.maxChars
     /\ Len(Fields(ret.joined)[1]) <= arg.maxChars) =>
        ret.lines[Len(ret.lines)] = LongestWordPrefix(ret.joined, arg.maxChars)

\* --------------------------------------------------------------- chunking
MaxSamples == 12
MaxRate == 2
MaxWindow == 3

\* pcm[lo:hi]
Slice(pcm, lo, hi) == [off |-> pcm.off + lo, len |-> hi - lo]

\* faulty variant of Stride: the overlap is not subtracted
Stride_NoOverlap(win, ovl) == win

\* start += (win - ovl)
Stride(win, ovl) == win - ovl

RECURSIVE chunkLoop(_, _, _, _, _)
chunkLoop(pcm, win, ovl, start, acc) ==
    IF ~(start < pcm.len) THEN acc
    ELSE LET end  == IF start + win > pcm.len THEN pcm.len ELSE start + win
             acc2 == Append(acc, Slice(pcm, start, end))
         IN  IF end = pcm.len THEN acc2
             ELSE chunkLoop(pcm, win, ovl, start + Stride(win, ovl), acc2)

chunkPCM(pcm, sr, windowSec, overlapSec) ==
    LET win == windowSec * sr
        ovl == overlapSec * sr
    IN  IF win <= 0 THEN <<pcm>> ELSE chunkLoop(pcm, win, ovl, 0, <<>>)

\* -------------------------------------------------- specification: chunkPCM
\* windowSec <= 0 is whole-file mode; otherwise main has checked win > ovl
InitChunk ==
    /\ arg \in {a \in [pcm : [off : {0}, len : 0..MaxSamples], sr : 1..MaxRate,
                      windowSec : 0..MaxWindow, overlapSec : 0..MaxWindow] :
                    a.windowSec <= 0 \/ a.windowSec > a.overlapSec}
    /\ ret = <<>>
    /\ pc = "call"
    /\ MainIdle

CallChunkPCM ==
    /\ pc = "call"
    /\ ret' = chunkPCM(arg.pcm, arg.sr, arg.windowSec, arg.overlapSec)
    /\ pc' = "done"
    /\ UNCHANGED <<arg, mainVars>>

NextChunk == CallChunkPCM

SpecChunk == InitChunk /\ [][NextChunk]_vars

ChunkDone == pc = "done" /\ DOMAIN arg = {"pcm", "sr", "windowSec", "overlapSec"}

\* C1: for L >= 1 and w > o > 0, chunk k (from 0) starts at sample k*(w-o)*sr,
\* every chunk but the last has w*sr samples, the chunks cover [0, L) without a
\* gap, the last chunk ends at L, and no chunk follows the first that reaches L.
C1_Windowing ==
    (/\ ChunkDone
     /\ arg.pcm.len >= 1
     /\ arg.windowSec > arg.overlapSec
     /\ arg.overlapSec > 0) =>
        LET L == arg.pcm.len
            n == Len(ret)
            EndOf(k) == ret[k].off + ret[k].len
        IN  /\ n >= 1
            /\ \A k \in 1..n :
                  ret[k].off = (k - 1) * (arg.windowSec - arg.overlapSec) * arg.sr
            /\ \A k \in 1..(n - 1) : ret[k].len = arg.windowSec * arg.sr
            /\ \A x \in 0..(L - 1) : \E k \in 1..n : ret[k].off <= x /\ x < EndOf(k)
            /\ EndOf(n) = L
            /\ \A k \in 1..(n - 1) : EndOf(k) < L

\* C1 witness: three or more overlapping chunks, the last one clipped short.
C1_Witness ==
    /\ ChunkDone
    /\ arg.overlapSec > 0
    /\ arg.windowSec > arg.overlapSec
    /\ Len(ret) >= 3
    /\ ret[Len(ret)].len < arg.windowSec * arg.sr
    /\ ret[Len(ret)].len >= 1

\* ------------------------------------------------------------ float32 times
\* the gap between neighbouring float32 values at x >= 0 (x in 2^-26 s): values
\* below 2^24 units have at most 24 significant bits and are exact
RECURSIVE Ulp(_)
Ulp(x) == IF x < 16777216 THEN 1 ELSE 2 * Ulp(x \div 2)

\* the float32 nearest to x + f/5 units, for x >= 0 and f in 0..4; a value
\* half-way between two float32 values goes to the one with the even mantissa
RoundF32(x, f) ==
    LET q    == Ulp(x)
        low  == x % q
        base == x - low
        c    == 10 * low + 2 * f
    IN  IF c < 5 * q THEN base
        ELSE IF c > 5 * q THEN base + q
        ELSE IF (base \div q) % 2 = 0 THEN base ELSE base + q

\* a + b and a - b on float32 operands (a, b >= 0)
F32Add(a, b) == RoundF32(a + b, 0)

F32Sub(a, b) == IF a >= b THEN RoundF32(a - b, 0) ELSE 0 - RoundF32(b - a, 0)

\* the float32 nearest to t/5 seconds: t * 2^26 / 5 = t * 13421772 + 4t/5
F32FromFifths(t) == RoundF32(t * 13421772 + (4 * t) \div 5, (4 * t) % 5)

\* float32(n) for a whole number n of seconds
Seconds(n) == n * 67108864

\* ------------------------------------------------------------------ dedupe
\* the float64 literal 0.2 of dedupeOverlap is 13421772.8 units, and
\* float64(overlap) + 0.2 keeps that fraction for a whole overlap: a whole
\* number of units is below it exactly when it is below overlap + 13421773
DedupeSlack == 13421773

Abs(x) == IF x < 0 THEN -x ELSE x

\* faulty variant of IsDuplicate: <= in place of <
IsDuplicate_Inclusive(prev, cur, overlap) ==
    /\ TrimSpace(prev.Text) = TrimSpace(cur.Text)
    /\ Abs(F32Sub(prev.Start, cur.Start)) <= overlap + DedupeSlack

\* the condition under which dedupeOverlap skips cur: the subtraction is done
\* in float32, the comparison in float64
IsDuplicate(prev, cur, overlap) ==
    /\ TrimSpace(prev.Text) = TrimSpace(cur.Text)
    /\ Abs(F32Sub(prev.Start, cur.Start)) < overlap + DedupeSlack

RECURSIVE dedupeLoop(_, _, _, _)
dedupeLoop(segs, overlap, k, acc) ==
    IF k > Len(segs) THEN acc
    ELSE LET prev == acc[Len(acc)]
             cur  == segs[k]
         IN  IF IsDuplicate(prev, cur, overlap)
             THEN dedupeLoop(segs, overlap, k + 1, acc)
             ELSE dedupeLoop(segs, overlap, k + 1, Append(acc, cur))

dedupeOverlap(segs, overlap) ==
    IF Len(segs) < 2 THEN segs ELSE dedupeLoop(segs, overlap, 2, <<segs[1]>>)

\* --------------------------------------------- specification: dedupeOverlap
MaxDedupeSegs == 3
MaxStart == 7
MaxOverlap == 1

DedupeTexts == {<<"a">>, <<" ", "a">>, <<"A">>}

\* segments 0.2 s long starting at the ticks 0..MaxStart
DedupeSegments ==
    {[Start |-> F32FromFifths(t), End |-> F32FromFifths(t + 1), Text |-> x] :
        t \in 0..MaxStart, x \in DedupeTexts}

InitDedupe ==
    /\ arg \in [segs : UNION {[1..n -> DedupeSegments] : n \in 0..MaxDedupeSegs},
                overlapSec : 0..MaxOverlap]
    /\ ret = <<>>
    /\ pc = "call"
    /\ MainIdle

CallDedupeOverlap ==
    /\ pc = "call"
    /\ ret' = dedupeOverlap(arg.segs, Seconds(arg.overlapSec))
    /\ pc' = "done"
    /\ UNCHANGED <<arg, mainVars>>

NextDedupe == CallDedupeOverlap

SpecDedupe == InitDedupe /\ [][NextDedupe]_vars

DedupeDone == pc = "done" /\ DOMAIN arg = {"segs", "overlapSec"}

\* the elements of s at the indices in K, in order
RECURSIVE Restrict(_, _)
Restrict(s, K) ==
    IF K = {} THEN <<>>
    ELSE Restrict(s, K \ {SetMax(K)}) \o <<s[SetMax(K)]>>

\* K is the set of kept indices the rule describes: 1 is kept, and a later index
\* is left out exactly when its segment has the same trimmed text as the nearest
\* kept segment before it and starts less than overlapSec + 0.2 s from it; the
\* difference d of the two float32 starts is their float32 difference, and
\* d < overlapSec + 1/5 is compared as 5 * d < 5 * overlapSec + 1
KeptByRule(segs, overlapSec, K) ==
    /\ 1 \in K
    /\ \A n \in 2..Len(segs) :
          LET last == SetMax({k \in K : k < n})
          IN  n \notin K <=>
                 /\ TrimSpace(segs[n].Text) = TrimSpace(segs[last].Text)
                 /\ 5 * Abs(F32Sub(segs[n].Start, segs[last].Start))
                        < (5 * overlapSec + 1) * 67108864

\* C2: the output is the subsequence of the input kept by the running last-kept
\* rule: first segment kept, a later one dropped iff same trimmed text as the
\* last kept one and |start difference| < overlapSeconds + 0.2, the difference
\* taken in float32 as the starts are.
C2_DedupeRule ==
    (DedupeDone /\ arg.segs # <<>>) =>
        \E K \in SUBSET (1..Len(arg.segs)) :
            /\ KeptByRule(arg.segs, arg.overlapSec, K)
            /\ ret = Restrict(arg.segs, K)

\* C2 witness: three segments with equal trimmed text and overlap 1 s; the
\* second (0.4 s) is dropped against the first (0.0 s), and the third (1.2 s),
\* within the tolerance of the dropped second but not of the kept first, is kept.
C2_Witness ==
    /\ DedupeDone
    /\ Len(arg.segs) = 3
    /\ arg.overlapSec = 1
    /\ \A n \in 1..3 : TrimSpace(arg.segs[n].Text) = <<"a">>
    /\ arg.segs[1].Text # arg.segs[2].Text
    /\ arg.segs[1].Start = 0
    /\ arg.segs[2].Start = F32FromFifths(2)
    /\ arg.segs[3].Start = F32FromFifths(6)
    /\ ret = <<arg.segs[1], arg.segs[3]>>

\* ------------------------------------------------------------ cue building
\* the float64 literal 0.6 passed to mergeShortCues is 40265318.4 units: a whole
\* number of units is at least 0.6 exactly when it is at least 40265319
MinDur == 40265319

\* the literals 42 and 2 passed to wrapWords by mergeShortCues
MergeWrapChars == 42
MergeWrapLines == 2

RECURSIVE Reindex(_, _)
Reindex(cs, n) ==
    IF cs = <<>> THEN <<>>
    ELSE <<[Head(cs) EXCEPT !.Idx = n]>> \o Reindex(Tail(cs), n + 1)

RECURSIVE mergeLoop(_, _, _, _)
mergeLoop(cs, minDur, k, acc) ==
    IF k > Len(cs) THEN acc
    ELSE LET c   == cs[k]
             dur == F32Sub(c.End, c.Start)
         IN  IF dur >= minDur \/ k = Len(cs)
             THEN mergeLoop(cs, minDur, k + 1, Append(acc, c))
             ELSE LET next   == cs[k + 1]
                      raw    == TrimSpace(c.RawText \o <<" ">> \o next.RawText)
                      merged == [Idx     |-> c.Idx,
                                 Start   |-> c.Start,
                                 End     |-> next.End,
                                 Lines   |-> wrapWords(raw, MergeWrapChars, MergeWrapLines),
                                 RawText |-> raw]
                  IN  mergeLoop(cs, minDur, k + 2, Append(acc, merged))

mergeShortCues(cs, minDur) ==
    IF Len(cs) < 2 THEN cs ELSE Reindex(mergeLoop(cs, minDur, 1, <<>>), 1)

RECURSIVE cuesLoop(_, _, _, _, _, _)
cuesLoop(segs, maxChars, maxLines, k, n, acc) ==
    IF k > Len(segs) THEN acc
    ELSE LET s     == segs[k]
             lines == wrapWords(s.Text, maxChars, maxLines)
         IN  IF Len(lines) = 0
             THEN cuesLoop(segs, maxChars, maxLines, k + 1, n, acc)
             ELSE cuesLoop(segs, maxChars, maxLines, k + 1, n + 1,
                           Append(acc, [Idx |-> n, Start |-> s.Start, End |-> s.End,
                                        Lines |-> lines, RawText |-> s.Text]))

segmentsToCues(segs, maxChars, maxLines) ==
    mergeShortCues(cuesLoop(segs, maxChars, maxLines, 1, 1, <<>>), MinDur)

\* -------------------------------------------- specification: segmentsToCues
MaxCueSegs == 3

CueTexts == {<<>>, <<"a">>, <<"a", " ", "b", "b">>}

\* segments from tick 0 or 4 that end 2, 3 or 4 ticks later: 0.0 -> 0.6 s lasts
\* float32(0.6), 0.8 -> 1.4 s lasts 0.59999996 s in float32
CueSegments ==
    {[Start |-> F32FromFifths(t), End |-> F32FromFifths(t + d), Text |-> x] :
        t \in {0, 4}, d \in {2, 3, 4}, x \in CueTexts}

InitCues ==
    /\ arg \in [segs : UNION {[1..n -> CueSegments] : n \in 0..MaxCueSegs},
                maxChars : 1..MaxChars, maxLines : 1..MaxLines]
    /\ ret = <<>>
    /\ pc = "call"
    /\ MainIdle

CallSegmentsToCues ==
    /\ pc = "call"
    /\ ret' = segmentsToCues(arg.segs, arg.maxChars, arg.maxLines)
    /\ pc' = "done"
    /\ UNCHANGED <<arg, mainVars>>

NextCues == CallSegmentsToCues

SpecCues == InitCues /\ [][NextCues]_vars

CuesDone == pc = "done" /\ DOMAIN arg = {"segs", "maxChars", "maxLines"}

\* C6: every cue returned by buildCues, merged or not, carries the lines that
\* wrapping its raw text under the caller's maxChars and maxLines gives (for a
\* merged cue the raw text is short text + space + following text), so no cue
\* has more than maxLines lines.
C6_MergedCuesUseCallerWrap ==
    CuesDone =>
        \A n \in 1..Len(ret) :
            /\ ret[n].Lines = wrapWords(ret[n].RawText, arg.maxChars, arg.maxLines)
            /\ Len(ret[n].Lines) <= arg.maxLines

\* ---------------------------------------------------------- transcription
\* transcribe after ctx.Process succeeded: each engine segment's text is
\* trimmed, and a segment whose trimmed text is empty is left out
RECURSIVE transcribe(_)
transcribe(engineSegs) ==
    IF engineSegs = <<>> THEN <<>>
    ELSE LET s   == Head(engineSegs)
             txt == TrimSpace(s.Text)
         IN  IF txt # <<>>
             THEN <<[s EXCEPT !.Text = txt]>> \o transcribe(Tail(engineSegs))
             ELSE transcribe(Tail(engineSegs))

\* faulty variant of Rebase: End is not shifted
Rebase_StartOnly(segs, off) ==
    [n \in 1..Len(segs) |-> [segs[n] EXCEPT !.Start = F32Add(@, off)]]

\* s.Start += offset; s.End += offset, for each s of segs
Rebase(segs, off) ==
    [n \in 1..Len(segs) |->
        [segs[n] EXCEPT !.Start = F32Add(@, off), !.End = F32Add(@, off)]]

\* ------------------------------------------------------------ caption text
\* writeVTT and writeSRT: the header line and, per cue, the index (SRT only), the
\* timestamp line and the wrapped lines; the timestamps stay float32 values
writeVTT(cs) ==
    <<"WEBVTT">> \o [n \in 1..Len(cs) |->
                        [Start |-> cs[n].Start, End |-> cs[n].End, Lines |-> cs[n].Lines]]

writeSRT(cs) ==
    [n \in 1..Len(cs) |->
        [Idx |-> cs[n].Idx, Start |-> cs[n].Start, End |-> cs[n].End,
         Lines |-> cs[n].Lines]]

\* --------------------------------------------------------------------- main
\* The flags -window, -overlap, -maxchars and -maxlines and the decoded buffer
\* are drawn in InitMain; -out and -format are drawn where main reads them.
SampleRate == 16000

MaxEngineSegs == 1

\* -window values, and lengths of the decoded audio in half seconds
MainWindows == {0, 1, 2}
MainHalfSeconds == {1, 4, 7}

\* raw engine texts: one to trim, one blank
EngineTexts == {<<"a", " ", "b", " ">>, <<" ">>}

\* duration of a chunk in whole ticks
DurationTicks(chunk) == (chunk.len * 5) \div SampleRate

Least(a, b) == IF a < b THEN a ELSE b

\* what the engine may return for audio of dur ticks: segments in non-decreasing
\* start order, with start <= end, inside [0, dur]; starts lie on a 0.6 s grid
\* and a segment ends 0.4 s or 0.6 s later unless the end of the audio clips it
EngineSegments(dur) ==
    {[Start |-> F32FromFifths(t), End |-> F32FromFifths(Least(t + d, dur)), Text |-> x] :
        t \in {u \in 0..dur : u % 3 = 0}, d \in {2, 3}, x \in EngineTexts}

EngineOutputs(dur) ==
    {o \in UNION {[1..n -> EngineSegments(dur)] : n \in 0..MaxEngineSegs} :
        \A n \in 1..(Len(o) - 1) : o[n].Start <= o[n + 1].Start}

\* fail(err): the message goes to stderr and the process exits with status 1
Fail(kind, index) ==
    /\ failure' = [kind |-> kind, chunk |-> index, exit |-> 1]
    /\ pc' = "failed"

InitMain ==
    /\ arg \in [pcm : [off : {0},
                       len : {h * (SampleRate \div 2) : h \in MainHalfSeconds}],
                windowSec : MainWindows, overlapSec : 0..MaxOverlap,
                maxChars : {MaxChars, MergeWrapChars}, maxLines : {MergeWrapLines}]
    /\ ret = <<>>
    /\ pc = "start"
    /\ MainIdle

\* lines 40-65: a missing -in, a bad -format, a decoder or model-load error
SetupFail ==
    /\ pc = "start"
    /\ Fail("setup", -1)
    /\ UNCHANGED <<arg, ret, chunks, chunkIdx, offset, segments, cues, engineLog, out>>

\* line 74, windowSec <= 0: the whole buffer goes to the engine
StartWhole ==
    /\ pc = "start"
    /\ arg.windowSec <= 0
    /\ pc' = "whole"
    /\ UNCHANGED <<arg, ret, mainVars>>

TranscribeWholeOk ==
    /\ pc = "whole"
    /\ \E o \in EngineOutputs(DurationTicks(arg.pcm)) :
          segments' = segments \o transcribe(o)
    /\ pc' = "cues"
    /\ UNCHANGED <<arg, ret, chunks, chunkIdx, offset, cues, engineLog, out, failure>>

TranscribeWholeFail ==
    /\ pc = "whole"
    /\ Fail("transcribe", -1)
    /\ UNCHANGED <<arg, ret, chunks, chunkIdx, offset, segments, cues, engineLog, out>>

\* lines 83-85
StartBadWindow ==
    /\ pc = "start"
    /\ arg.windowSec > 0
    /\ arg.windowSec <= arg.overlapSec
    /\ Fail("window must be > overlap", -1)
    /\ UNCHANGED <<arg, ret, chunks, chunkIdx, offset, segments, cues, engineLog, out>>

\* lines 86-87
StartChunked ==
    /\ pc = "start"
    /\ arg.windowSec > 0
    /\ ~(arg.windowSec <= arg.overlapSec)
    /\ chunks' = chunkPCM(arg.pcm, SampleRate, arg.windowSec, arg.overlapSec)
    /\ offset' = 0
    /\ chunkIdx' = 0
    /\ pc' = "loop"
    /\ UNCHANGED <<arg, ret, segments, cues, engineLog, out, failure>>

\* faulty variant of TranscribeChunkFail: the error is reported and the loop goes on
TranscribeChunkFail_Continue ==
    /\ pc = "loop"
    /\ chunkIdx < Len(chunks)
    /\ engineLog' = Append(engineLog, [chunk |-> chunkIdx, slice |-> chunks[chunkIdx + 1],
                                       ok |-> FALSE, segs |-> <<>>, offset |-> offset])
    /\ failure' = [kind |-> "chunk", chunk |-> chunkIdx, exit |-> 1]
    /\ chunkIdx' = chunkIdx + 1
    /\ UNCHANGED <<arg, ret, pc, chunks, offset, segments, cues, out>>

\* lines 89-92: the engine fails on chunk i
TranscribeChunkFail ==
    /\ pc = "loop"
    /\ chunkIdx < Len(chunks)
    /\ engineLog' = Append(engineLog, [chunk |-> chunkIdx, slice |-> chunks[chunkIdx + 1],
                                       ok |-> FALSE, segs |-> <<>>, offset |-> offset])
    /\ Fail("chunk", chunkIdx)
    /\ UNCHANGED <<arg, ret, chunks, chunkIdx, offset, segments, cues, out>>

\* lines 89-100: the engine succeeds on chunk i
TranscribeChunkOk ==
    /\ pc = "loop"
    /\ chunkIdx < Len(chunks)
    /\ \E o \in EngineOutputs(DurationTicks(chunks[chunkIdx + 1])) :
          LET segs == transcribe(o)
          IN  /\ segments' = segments \o Rebase(segs, offset)
              /\ engineLog' = Append(engineLog,
                                     [chunk |-> chunkIdx, slice |-> chunks[chunkIdx + 1],
                                      ok |-> TRUE, segs |-> segs, offset |-> offset])
    /\ offset' = F32Add(offset, Seconds(arg.windowSec - arg.overlapSec))
    /\ chunkIdx' = chunkIdx + 1
    /\ UNCHANGED <<arg, ret, pc, chunks, cues, out, failure>>

\* line 103, after the last chunk
Dedupe ==
    /\ pc = "loop"
    /\ chunkIdx = Len(chunks)
    /\ segments' = dedupeOverlap(segments, Seconds(arg.overlapSec))
    /\ pc' = "cues"
    /\ UNCHANGED <<arg, ret, chunks, chunkIdx, offset, cues, engineLog, out, failure>>

\* line 107
BuildCues ==
    /\ pc = "cues"
    /\ cues' = segmentsToCues(segments, arg.maxChars, arg.maxLines)
    /\ pc' = "open"
    /\ UNCHANGED <<arg, ret, chunks, chunkIdx, offset, segments, engineLog, out, failure>>

\* lines 111-112: -out is "-"
OpenStdout ==
    /\ pc = "open"
    /\ out' = [out EXCEPT !.path = "-"]
    /\ pc' = "write"
    /\ UNCHANGED <<arg, ret, chunks, chunkIdx, offset, segments, cues, engineLog, failure>>

\* lines 114-120: -out names a file
CreateFile ==
    /\ pc = "open"
    /\ out' = [out EXCEPT !.path = "captions.vtt", !.created = TRUE]
    /\ pc' = "write"
    /\ UNCHANGED <<arg, ret, chunks, chunkIdx, offset, segments, cues, engineLog, failure>>

\* lines 115-118: os.Create fails
CreateFileFail ==
    /\ pc = "open"
    /\ Fail("create", -1)
    /\ UNCHANGED <<arg, ret, chunks, chunkIdx, offset, segments, cues, engineLog, out>>

\* lines 123-131, -format vtt
WriteVTT ==
    /\ pc = "write"
    /\ out' = [out EXCEPT !.text = writeVTT(cues)]
    /\ pc' = "exit"
    /\ UNCHANGED <<arg, ret, chunks, chunkIdx, offset, segments, cues, engineLog, failure>>

\* lines 123-131, -format srt
WriteSRT ==
    /\ pc = "write"
    /\ out' = [out EXCEPT !.text = writeSRT(cues)]
    /\ pc' = "exit"
    /\ UNCHANGED <<arg, ret, chunks, chunkIdx, offset, segments, cues, engineLog, failure>>

NextMain ==
    \/ SetupFail
    \/ StartWhole
    \/ TranscribeWholeOk
    \/ TranscribeWholeFail
    \/ StartBadWindow
    \/ StartChunked
    \/ TranscribeChunkOk
    \/ TranscribeChunkFail
    \/ Dedupe
    \/ BuildCues
    \/ OpenStdout
    \/ CreateFile
    \/ CreateFileFail
    \/ WriteVTT
    \/ WriteSRT

Spec == InitMain /\ [][NextMain]_vars

\* ----------------------------------------------------------- claims on main
Chunked == arg.windowSec > 0 /\ arg.windowSec > arg.overlapSec

InChunkedRun == DOMAIN arg = {"pcm", "windowSec", "overlapSec", "maxChars", "maxLines"}
                /\ Chunked /\ pc # "start"

NonDecreasingStart(s) == \A n \in 1..(Len(s) - 1) : s[n].Start <= s[n + 1].Start

\* C3: in a chunked run whose engine returns time-ordered segments inside each
\* chunk, the global segment list, the deduplicated list and the cue list are
\* all in non-decreasing start order.
C3_StartOrderKept ==
    InChunkedRun => NonDecreasingStart(segments) /\ NonDecreasingStart(cues)

\* C7: chunks go to the engine in index order, one call each; a failed call is
\* the last one, the run then has failed reporting that chunk's index, and no
\* output file was created and no caption text written.
C7_FailFast ==
    InChunkedRun =>
        /\ Len(engineLog) <= Len(chunks)
        /\ \A n \in 1..Len(engineLog) :
              /\ engineLog[n].chunk = n - 1
              /\ engineLog[n].slice = chunks[n]
              /\ (n < Len(engineLog) => engineLog[n].ok)
        /\ (Len(engineLog) > 0 /\ ~engineLog[Len(engineLog)].ok) =>
              /\ pc = "failed"
              /\ failure = [kind |-> "chunk", chunk |-> Len(engineLog) - 1, exit |-> 1]
              /\ out.created = FALSE
              /\ out.text = <<>>
        /\ (pc = "failed" /\ failure.kind = "chunk") =>
              (Len(engineLog) > 0 /\ ~engineLog[Len(engineLog)].ok)

\* C7 witness: the engine fails on a chunk after the first, with segments already
\* collected and chunks still to come.
C7_Witness ==
    /\ InChunkedRun
    /\ pc = "failed"
    /\ failure.kind = "chunk"
    /\ failure.chunk >= 1
    /\ failure.chunk + 1 < Len(chunks)
    /\ segments # <<>>

\* the whole number of seconds (k-1)*(w-o) at which engine call k's chunk starts
ChunkStartSec(k) == (k - 1) * (arg.windowSec - arg.overlapSec)

\* the segments of engine calls 1..n placed on the global timeline: call k's
\* segments with (k-1)*(w-o) seconds added to start and end in float32
RECURSIVE ShiftedUpTo(_)
ShiftedUpTo(n) ==
    IF n = 0 THEN <<>>
    ELSE LET e == engineLog[n]
             o == ChunkStartSec(n) * 67108864
         IN  ShiftedUpTo(n - 1) \o
             [m \in 1..Len(e.segs) |->
                 [Start |-> F32Add(e.segs[m].Start, o), End |-> F32Add(e.segs[m].End, o),
                  Text |-> e.segs[m].Text]]

\* C8: while chunks are being transcribed, the global list is every returned
\* segment with start and end raised (a float32 addition) by its chunk's offset
\* i*(w-o) seconds, and that offset is the chunk's first sample divided by the
\* sample rate.
C8_Rebasing ==
    (InChunkedRun /\ (pc = "loop" \/ (pc = "failed" /\ failure.kind = "chunk"))) =>
        /\ segments = ShiftedUpTo(Len(engineLog))
        /\ \A n \in 1..Len(engineLog) :
              /\ engineLog[n].offset = ChunkStartSec(n) * 67108864
              /\ engineLog[n].slice.off = ChunkStartSec(n) * SampleRate

\* C8 witness: the third chunk of an overlapping run has returned a segment with
\* distinct start and end, appended at a non-zero offset.
C8_Witness ==
    /\ InChunkedRun
    /\ pc = "loop"
    /\ arg.overlapSec > 0
    /\ Len(engineLog) >= 3
    /\ engineLog[3].ok
    /\ engineLog[3].segs # <<>>
    /\ engineLog[3].segs[1].Start < engineLog[3].segs[1].End
    /\ segments[Len(segments)].Start =
           F32Add(engineLog[3].segs[Len(engineLog[3].segs)].Start, engineLog[3].offset)
    /\ engineLog[3].offset > 0

====
